---- MODULE Spec2Model ----
(***************************************************************************)
(* Model of the asynchronous Tado client (src/src/tadoasync/tadoasync.py). *)
(*                                                                         *)
(* The state is one client object (the fields __init__ sets), the wall     *)
(* clock, and a record of the call that has just ended: which operation it *)
(* was (op), how it ended (result) and the network events it produced, in  *)
(* order (log).  The single caller takes the outcome (op is "idle" again)  *)
(* before it makes its next call.  me_requests is a history variable: the  *)
(* number of requests for /me the client has sent since it was made.       *)
(* returned is the object the call that has just ended handed back, for    *)
(* the calls whose value the model follows.  tasks holds the positions of  *)
(* the calls that run at once when the caller gathers several (empty when  *)
(* it makes one call at a time).                                           *)
(*                                                                         *)
(* Every awaited network call gets its answer from a small set of          *)
(* responses: status 0 stands for asyncio's TimeoutError (no response),    *)
(* any other status is the HTTP status of the response.                    *)
(***************************************************************************)
EXTENDS Integers, Sequences, FiniteSets, TLC

VARIABLES tado, now, op, result, log, polling, me_requests, returned, tasks

vars == <<tado, now, op, result, log, polling, me_requests, returned, tasks>>

(***************************************************************************)
(* Bounds of the model.                                                    *)
(***************************************************************************)
\* the clock advances in steps of TimeStep seconds, MaxSteps times at most
MaxSteps == 3
\* the token endpoint hands out token pairs 1..MaxTok
MaxTok == 2
\* the requests for /me are counted up to MaxMeRequests
MaxMeRequests == 2

\* the grain of the clock, in seconds
TimeStep == 10
MaxTime == MaxSteps * TimeStep
\* seconds the clock may advance between two calls
Ticks == {TimeStep}
\* seconds an answered token exchange may take
Elapsed == {0, TimeStep}
\* expires_in values of a token response
ExpiresIn == {30, 50}
\* expires_in and interval values of a device-authorization response
FlowExpiresIn == {TimeStep}
FlowInterval == {0, TimeStep}
\* "homes" lists of a /me profile
HomesLists == {<< >>, <<1>>, <<2, 1>>}
\* the refresh token a caller may hand to the constructor
StoredRefreshToken == 9
\* the device code and the user code of a device-authorization response
DeviceCode == 7
UserCode == 5

(***************************************************************************)
(* Values.                                                                 *)
(***************************************************************************)
\* Python's None, for the numeric fields (tokens, ids and times are >= 0)
None == -1
\* Python's None, for the fields that hold strings
NoneStr == "None"
\* the safety margin of _refresh_auth
MARGIN == 30

NOT_STARTED == "NOT_STARTED"
PENDING == "PENDING"
COMPLETED == "COMPLETED"

OK == "ok"
\* status of a call that timed out: there is no response
TIMEOUT == 0

ErrorStatuses == {400, 401, 403, 500, 404}

\* what a call hands back: the client, the clock, the events, the outcome
\* (OK or the name of the exception raised) and the returned value
Ret(c, t, l, err, val) == [c |-> c, t |-> t, log |-> l, err |-> err, val |-> val]

(***************************************************************************)
(* Responses of the vendor's endpoints.                                    *)
(***************************************************************************)
\* token endpoint: a 200 carries a token pair, anything else carries nothing
TokenResponses ==
    {[status |-> 200, json |-> TRUE, error |-> "", access_token |-> k,
      refresh_token |-> 10 + k, expires_in |-> e] : k \in 1..MaxTok, e \in ExpiresIn}
    \cup
    {[status |-> s, json |-> TRUE, error |-> "", access_token |-> None,
      refresh_token |-> None, expires_in |-> 0] : s \in ErrorStatuses \cup {TIMEOUT}}

\* a resource endpoint: a 200 carries one of the bodies (for /me, a homes list)
ResourceResponses(bodies) ==
    {[status |-> 200, body |-> b] : b \in bodies}
    \cup
    {[status |-> s, body |-> << >>] : s \in ErrorStatuses \cup {TIMEOUT}}

\* the answer of a request that is not sent
NoResponse == [status |-> TIMEOUT, body |-> << >>]
\* the answer and the duration of a token exchange that is not made
NoExchange == [r |-> [status |-> TIMEOUT], d |-> 0]

\* an exchange: the endpoint's answer r and, when it answers 200, the seconds
\* d it took (the duration of a failed exchange changes nothing the client keeps)
Exchanges(responses) ==
    {[r |-> r, d |-> d] : r \in {r \in responses : r.status = 200}, d \in Elapsed}
    \cup
    {[r |-> r, d |-> 0] : r \in {r \in responses : r.status # 200}}

(***************************************************************************)
(* Tado.check_request_status: the exception a ClientResponseError maps to. *)
(* A status without an entry in status_error_mapping is a KeyError.        *)
(***************************************************************************)
check_request_status(status, login) ==
    CASE status = 500 -> "TadoError"
      [] status = 401 -> "TadoAuthenticationError"
      [] status = 403 -> "TadoForbiddenError"
      [] status = 400 -> IF login THEN "TadoAuthenticationError"
                                  ELSE "TadoBadRequestError"
      [] OTHER -> "KeyError"

(***************************************************************************)
(* The events a call leaves in the log, in the order they happen:          *)
(*   check     _refresh_auth's test of the expiry it finds                 *)
(*   grant     a grant posted to the token endpoint, with its credential   *)
(*   response  the endpoint's answer r to the grant, the request or the    *)
(*             device_authorize before it                                  *)
(*   request   a resource request, with the bearer token it carries        *)
(*   sleep     the poll loop's asyncio.sleep                               *)
(*   device_authorize  the post to the device-authorization endpoint       *)
(***************************************************************************)
Answer(r, t) == [kind |-> "response", r |-> r, now |-> t]
Response(x, t) == Answer(x.r, t)

(***************************************************************************)
(* The HTTP session.  session tells whose object _session is: "none" for   *)
(* None, "caller" for the one handed to the constructor, "own" for a       *)
(* ClientSession() the client made; session_closed is that object's        *)
(* closed property.                                                        *)
(***************************************************************************)
\* a variant that takes over a caller's session it finds open
ensure_session_owning(c) ==
    IF c.session = "none" \/ c.session_closed
    THEN [c EXCEPT !.session = "own", !.session_closed = FALSE,
                   !.close_session = TRUE]
    ELSE [c EXCEPT !.close_session = TRUE]

\* Tado._ensure_session
ensure_session(c) ==
    IF c.session = "none" \/ c.session_closed
    THEN [c EXCEPT !.session = "own", !.session_closed = FALSE,
                   !.close_session = TRUE]
    ELSE c

\* the session block of login, which only tests for None
login_session(c) ==
    IF c.session = "none"
    THEN [c EXCEPT !.session = "own", !.session_closed = FALSE,
                   !.close_session = TRUE]
    ELSE c

\* Tado.close
close(c) ==
    IF c.session # "none" /\ c.close_session
    THEN [c EXCEPT !.session_closed = TRUE]
    ELSE c

(***************************************************************************)
(* Tado._refresh_auth.                                                     *)
(***************************************************************************)
\* a variant of the early return that forgets the safety margin
TokenFreshNoMargin(c, t) ==
    c.token_expiry # None /\ t < c.token_expiry

\* the early return of _refresh_auth: the token is still good
TokenFresh(c, t) ==
    c.token_expiry # None /\ t < c.token_expiry - MARGIN

\* a variant of the assignment that takes expires_in for an absolute time
StoreRefreshedRelative(c, t, r) ==
    [c EXCEPT !.access_token = r.access_token,
              !.token_expiry = r.expires_in,
              !.refresh_token = r.refresh_token]

\* the fields a successful refresh-token grant assigns
StoreRefreshed(c, t, r) ==
    [c EXCEPT !.access_token = r.access_token,
              !.token_expiry = t + r.expires_in,
              !.refresh_token = r.refresh_token]

\* a variant that drops the access token it holds when the grant is refused
refresh_auth_forgetful(c, t, x) ==
    LET checked == <<[kind |-> "check", fresh |-> TokenFresh(c, t),
                      expiry |-> c.token_expiry, now |-> t]>>
        sent == Append(checked, [kind |-> "grant", grant |-> "refresh_token",
                                 token |-> c.refresh_token, now |-> t])
        answered == Append(sent, Response(x, t + x.d))
        s == ensure_session(c)
    IN  IF TokenFresh(c, t) THEN Ret(c, t, checked, OK, None)
        ELSE IF x.r.status = TIMEOUT
             THEN Ret(s, t + x.d, sent, "TadoConnectionError", None)
        ELSE IF x.r.status >= 400
             THEN Ret([s EXCEPT !.access_token = None], t + x.d, answered,
                      check_request_status(x.r.status, FALSE), None)
        ELSE Ret(StoreRefreshed(s, t + x.d, x.r), t + x.d, answered, OK, None)

\* x.r is the token endpoint's answer, x.d the seconds the exchange takes
refresh_auth(c, t, x) ==
    LET checked == <<[kind |-> "check", fresh |-> TokenFresh(c, t),
                      expiry |-> c.token_expiry, now |-> t]>>
        sent == Append(checked, [kind |-> "grant", grant |-> "refresh_token",
                                 token |-> c.refresh_token, now |-> t])
        answered == Append(sent, Response(x, t + x.d))
        s == ensure_session(c)
    IN  IF TokenFresh(c, t) THEN Ret(c, t, checked, OK, None)
        ELSE IF x.r.status = TIMEOUT
             THEN Ret(s, t + x.d, sent, "TadoConnectionError", None)
        ELSE IF x.r.status >= 400
             THEN Ret(s, t + x.d, answered, check_request_status(x.r.status, FALSE), None)
        ELSE Ret(StoreRefreshed(s, t + x.d, x.r), t + x.d, answered, OK, None)

\* the token exchanges _refresh_auth may have to make in state c at time t
RefreshInputs(c, t) ==
    IF TokenFresh(c, t) THEN {NoExchange} ELSE Exchanges(TokenResponses)

(***************************************************************************)
(* "a = await f(); rest": the awaited call is made once and the rest of the *)
(* body goes on from what it handed back, Awaited({rest(a) : a \in {f}}).   *)
(***************************************************************************)
Awaited(S) == CHOOSE r \in S : TRUE

(***************************************************************************)
(* Tado._request: the gateway.  x answers the refresh, q the request.      *)
(***************************************************************************)
\* a variant of the gateway that sends a failed request a second time
request_retry(c, t, uri, x, q) ==
    LET send(a) ==
            LET req == [kind |-> "request", uri |-> uri,
                        token |-> a.c.access_token, now |-> a.t,
                        expiry |-> a.c.token_expiry]
                sent == Append(a.log, req)
                answered == Append(sent, Answer(q, a.t))
                s == ensure_session(a.c)
            IN  IF a.err # OK THEN a
                ELSE IF q.status = TIMEOUT
                     THEN Ret(s, a.t, Append(sent, req), "TadoConnectionError", None)
                ELSE IF q.status >= 400
                     THEN Ret(s, a.t, Append(Append(answered, req), Answer(q, a.t)),
                              check_request_status(q.status, FALSE), None)
                ELSE Ret(s, a.t, answered, OK, q.body)
    IN  Awaited({send(a) : a \in {refresh_auth(c, t, x)}})

request(c, t, uri, x, q) ==
    LET send(a) ==
            LET sent == Append(a.log, [kind |-> "request", uri |-> uri,
                                       token |-> a.c.access_token, now |-> a.t,
                                       expiry |-> a.c.token_expiry])
                answered == Append(sent, Answer(q, a.t))
                s == ensure_session(a.c)
            IN  IF a.err # OK THEN a
                ELSE IF q.status = TIMEOUT
                     THEN Ret(s, a.t, sent, "TadoConnectionError", None)
                ELSE IF q.status >= 400
                     THEN Ret(s, a.t, answered,
                              check_request_status(q.status, FALSE), None)
                ELSE Ret(s, a.t, answered, OK, q.body)
    IN  Awaited({send(a) : a \in {refresh_auth(c, t, x)}})

\* the inputs of one gateway call: the request is answered only when
\* _refresh_auth has returned
RequestInputs(c, t, bodies) ==
    {[x |-> x, q |-> q] :
        x \in {x \in RefreshInputs(c, t) : refresh_auth(c, t, x).err = OK},
        q \in ResourceResponses(bodies)}
    \cup
    {[x |-> x, q |-> NoResponse] :
        x \in {x \in RefreshInputs(c, t) : refresh_auth(c, t, x).err # OK}}

(***************************************************************************)
(* Tado.__init__.                                                          *)
(***************************************************************************)
NewTado(refresh_token, session) ==
    [refresh_token |-> refresh_token,
     session |-> session,
     session_closed |-> FALSE,
     close_session |-> FALSE,
     access_token |-> None,
     token_expiry |-> None,
     home_id |-> None,
     \* _me: << >> is None, <<homes>> a cached profile with that homes list
     me |-> << >>,
     user_code |-> None,
     device_verification_url |-> None,
     \* _device_flow_data: << >> is the empty dict, <<d>> the stored response
     device_flow_data |-> << >>,
     device_activation_status |-> NOT_STARTED,
     expires_at |-> None,
     tado_line |-> NoneStr]

\* what returned holds when no value is followed
Nothing == << >>

Init ==
    /\ tado \in {NewTado(rt, "none") : rt \in {None, StoredRefreshToken}}
    /\ now = 0
    /\ op = "idle"
    /\ result = OK
    /\ log = << >>
    /\ polling = FALSE
    /\ me_requests = 0
    /\ returned = Nothing
    /\ tasks = << >>

\* no call is in progress and the outcome of the last one has been taken
Idle == op = "idle" /\ ~polling

\* the caller takes the outcome of the call that has ended
Returned ==
    /\ op # "idle" /\ ~polling
    /\ op' = "idle"
    /\ result' = OK
    /\ log' = << >>
    /\ returned' = Nothing
    /\ UNCHANGED <<tado, now, polling, me_requests, tasks>>

\* the requests for /me among the events of a call, added to the n before
MeRequested(n, l) ==
    LET sent == Cardinality({i \in DOMAIN l : l[i].kind = "request" /\ l[i].uri = "me"})
    IN  IF n + sent > MaxMeRequests THEN MaxMeRequests ELSE n + sent

\* the end of a call that is not the device-activation loop
Return(name, v) ==
    \E a \in {v} :
        /\ a.t <= MaxTime
        /\ tado' = a.c
        /\ now' = a.t
        /\ op' = name
        /\ result' = a.err
        /\ log' = a.log
        /\ polling' = FALSE
        /\ me_requests' = MeRequested(me_requests, a.log)
        /\ returned' = Nothing
        /\ UNCHANGED tasks

(***************************************************************************)
(* The clock advances between two calls, or between two polls.             *)
(***************************************************************************)
Tick ==
    /\ Idle \/ polling
    /\ \E d \in Ticks : now + d <= MaxTime /\ now' = now + d
    /\ op' = IF polling THEN "tick" ELSE op
    /\ log' = << >>
    /\ UNCHANGED <<tado, result, polling, me_requests, returned, tasks>>

(***************************************************************************)
(* A caller awaits _refresh_auth (as the tests do).                        *)
(***************************************************************************)
RefreshAuth ==
    /\ Idle
    /\ \E x \in RefreshInputs(tado, now) :
           Return("_refresh_auth", refresh_auth(tado, now, x))

(***************************************************************************)
(* Tado.get_devices: one resource call through the gateway.                *)
(***************************************************************************)
get_devices(c, t, i) == request(c, t, "devices", i.x, i.q)

GetDevices ==
    /\ Idle
    /\ \E i \in RequestInputs(tado, now, {<<"devices">>}) :
           Return("get_devices", get_devices(tado, now, i))

(***************************************************************************)
(* Tado.get_me: the profile is fetched once and cached.                    *)
(***************************************************************************)
\* a variant of get_me that asks for the profile every time
get_me_uncached(c, t, i) ==
    LET cache(a) ==
            IF a.err # OK THEN a
            ELSE Ret([a.c EXCEPT !.me = <<a.val>>], a.t, a.log, OK, a.val)
    IN  Awaited({cache(a) : a \in {request(c, t, "me", i.x, i.q)}})

get_me(c, t, i) ==
    IF c.me # << >> THEN Ret(c, t, << >>, OK, c.me[1])
    ELSE LET cache(a) ==
                 IF a.err # OK THEN a
                 ELSE Ret([a.c EXCEPT !.me = <<a.val>>], a.t, a.log, OK, a.val)
         IN  Awaited({cache(a) : a \in {request(c, t, "me", i.x, i.q)}})

\* requests that are not made get the one dummy input
NoInput == [x |-> NoExchange, q |-> NoResponse]

GetMeInputs(c, t) ==
    IF c.me # << >> THEN {NoInput} ELSE RequestInputs(c, t, HomesLists)

\* a variant that takes the last home of the profile
ResolveHomeLast(a) ==
    IF a.err # OK THEN a
    ELSE IF a.val = << >> THEN Ret(a.c, a.t, a.log, "IndexError", None)
    ELSE Ret([a.c EXCEPT !.home_id = a.val[Len(a.val)]], a.t, a.log, OK, None)

\* self._home_id = get_me.homes[0].id, a being what get_me handed back
ResolveHome(a) ==
    IF a.err # OK THEN a
    ELSE IF a.val = << >> THEN Ret(a.c, a.t, a.log, "IndexError", None)
    ELSE Ret([a.c EXCEPT !.home_id = a.val[1]], a.t, a.log, OK, None)

GetMe ==
    /\ Idle
    /\ \E i \in GetMeInputs(tado, now) : Return("get_me", get_me(tado, now, i))

(***************************************************************************)
(* Tado.login_device_flow.                                                 *)
(***************************************************************************)
\* device-authorization endpoint: a 200 with a JSON body starts a flow
DeviceAuthResponses ==
    {[status |-> 200, json |-> TRUE, device_code |-> DeviceCode,
      user_code |-> UserCode, expires_in |-> e, interval |-> n] :
        e \in FlowExpiresIn, n \in FlowInterval}
    \cup
    {[status |-> s, json |-> j, device_code |-> None, user_code |-> None,
      expires_in |-> 0, interval |-> 0] :
        s \in ErrorStatuses \cup {TIMEOUT, 204}, j \in {TRUE}}
    \cup
    {[status |-> 200, json |-> FALSE, device_code |-> None, user_code |-> None,
      expires_in |-> 0, interval |-> 0]}

\* visit_url = f"{verification_uri}?{urlencode(user_code)}"
VisitUrl(user_code) == 1000 + user_code

\* a variant of the guard that lets a pending flow be started again
FlowNotCompleted(c) == c.device_activation_status # COMPLETED

\* the guard of login_device_flow
FlowNotStarted(c) == c.device_activation_status = NOT_STARTED

\* the fields login_device_flow assigns from the response
StoreFlow(c, t, r) ==
    [c EXCEPT !.device_flow_data = <<r>>,
              !.user_code = r.user_code,
              !.device_verification_url = VisitUrl(r.user_code),
              !.expires_at = t + r.expires_in]

login_device_flow(c, t, r) ==
    LET sent == <<[kind |-> "device_authorize", now |-> t]>>
        answered == Append(sent, Answer(r, t))
        s == ensure_session(c)
    IN  IF ~FlowNotStarted(c)
        THEN Ret(c, t, << >>, "TadoError: Device activation already in progress or completed", None)
        ELSE IF r.status = TIMEOUT THEN Ret(s, t, sent, "TadoConnectionError", None)
        ELSE IF r.status >= 400
             THEN Ret(s, t, answered, check_request_status(r.status, TRUE), None)
        ELSE IF ~r.json
             THEN Ret(s, t, answered, "TadoError: Unexpected response from Tado", None)
        ELSE IF r.status # 200
             THEN Ret(s, t, answered,
                      "TadoError: Failed to start device activation flow", None)
        ELSE Ret(StoreFlow(s, t, r), t, answered, OK, PENDING)

LoginDeviceFlowInputs(c) ==
    IF FlowNotStarted(c) THEN DeviceAuthResponses
    ELSE {CHOOSE r \in DeviceAuthResponses : r.status = TIMEOUT}

LoginDeviceFlow ==
    /\ Idle
    /\ \E r \in LoginDeviceFlowInputs(tado) :
           Return("login_device_flow", login_device_flow(tado, now, r))

(***************************************************************************)
(* Tado._device_ready.                                                     *)
(***************************************************************************)
device_ready(c) ==
    [c EXCEPT !.user_code = None,
              !.device_verification_url = None,
              !.device_activation_status = COMPLETED]

(***************************************************************************)
(* Tado.async_init.                                                        *)
(***************************************************************************)
\* without a refresh token: the device flow is started and its status kept
async_init_flow(c, t, r) ==
    LET keep(a) ==
            IF a.err # OK THEN a
            ELSE Ret([a.c EXCEPT !.device_activation_status = a.val],
                     a.t, a.log, OK, None)
    IN  Awaited({keep(a) : a \in {login_device_flow(c, t, r)}})

\* with a refresh token: the client is declared ready, then /me is fetched
async_init_token(c, t, i) ==
    Awaited({ResolveHome(a) : a \in {get_me(device_ready(c), t, i)}})

AsyncInit ==
    /\ Idle
    /\ IF tado.refresh_token = None
       THEN \E r \in LoginDeviceFlowInputs(tado) :
                Return("async_init", async_init_flow(tado, now, r))
       ELSE \E i \in GetMeInputs(device_ready(tado), now) :
                Return("async_init", async_init_token(tado, now, i))

(***************************************************************************)
(* Tado._check_device_activation: one iteration of the poll loop.          *)
(***************************************************************************)
\* what the token endpoint may answer to a device-code grant
PollResponses ==
    TokenResponses
    \cup
    {[status |-> 400, json |-> TRUE, error |-> "authorization_pending",
      access_token |-> None, refresh_token |-> None, expires_in |-> 0],
     [status |-> 400, json |-> FALSE, error |-> "",
      access_token |-> None, refresh_token |-> None, expires_in |-> 0],
     [status |-> 200, json |-> FALSE, error |-> "",
      access_token |-> None, refresh_token |-> None, expires_in |-> 0],
     [status |-> 204, json |-> TRUE, error |-> "",
      access_token |-> None, refresh_token |-> None, expires_in |-> 0]}

\* a variant of the first statement that never finds the flow expired
FlowNeverExpired(c, t) == c.expires_at # None /\ t > c.expires_at + MaxTime

\* a variant of the test that grants the user a grace period
FlowExpiredLate(c, t) == c.expires_at # None /\ t > c.expires_at + TimeStep

\* the first statement: the flow's absolute expiry has passed
FlowExpired(c, t) == c.expires_at # None /\ t > c.expires_at

\* the fields a 200 answer to the device-code grant assigns
StoreTokens(c, t, r) ==
    [c EXCEPT !.access_token = r.access_token,
              !.token_expiry = t + r.expires_in,
              !.refresh_token = r.refresh_token]

\* a variant without the special case of "authorization_pending"
PollFailureNoPending(r) ==
    IF r.status = TIMEOUT THEN "TadoConnectionError"
    ELSE IF r.status >= 400 THEN "ClientResponseError"
    ELSE IF ~r.json THEN "TadoError: Unexpected response from Tado"
    ELSE "TadoError: Login failed"

\* the outcome of the exchange for an answer that is not a 200 with a JSON
\* body: "pending" is the return of False, anything else is raised
PollFailure(r) ==
    IF r.status = TIMEOUT THEN "TadoConnectionError"
    ELSE IF r.status = 400 /\ ~r.json THEN "ContentTypeError"
    ELSE IF r.status = 400 /\ r.error = "authorization_pending" THEN "pending"
    ELSE IF r.status >= 400 THEN "ClientResponseError"
    ELSE IF ~r.json THEN "TadoError: Unexpected response from Tado"
    ELSE "TadoError: Login failed"

\* the iteration reaches the branch of line 245 and stores the tokens
PollStores(c, t, x) ==
    ~FlowExpired(c, t) /\ c.device_flow_data # << >>
    /\ x.r.status = 200 /\ x.r.json

\* the time the answer of the device-code grant arrives
PollAnswered(c, t, x) == t + c.device_flow_data[1].interval + x.d

\* x answers the device-code grant, i the get_me() that follows a 200
check_device_activation(c, t, x, i) ==
    IF FlowExpired(c, t)
    THEN Ret(c, t, << >>, "TadoError: User took too long to enter key", None)
    ELSE IF c.device_flow_data = << >> THEN Ret(c, t, << >>, "KeyError", None)
    ELSE LET flow == c.device_flow_data[1]
             slept == t + flow.interval
             sent == <<[kind |-> "sleep", secs |-> flow.interval, now |-> t],
                       [kind |-> "grant", grant |-> "device_code",
                        token |-> flow.device_code, now |-> slept]>>
             s == ensure_session(c)
             stored == StoreTokens(s, slept + x.d, x.r)
             answered == Append(sent, Response(x, slept + x.d))
             done(got) ==
                 Ret(got.c, got.t, answered \o got.log, got.err, got.err = OK)
             home(me) == Awaited({done(got) : got \in {ResolveHome(me)}})
         IN  IF x.r.status = TIMEOUT
             THEN Ret(s, slept + x.d, sent, PollFailure(x.r), FALSE)
             ELSE IF ~(x.r.status = 200 /\ x.r.json)
             THEN Ret(s, slept + x.d, answered, PollFailure(x.r), FALSE)
             ELSE Awaited({home(me) : me \in {get_me(stored, slept + x.d, i)}})

PollInputs(c, t) ==
    IF FlowExpired(c, t) \/ c.device_flow_data = << >> THEN {NoExchange}
    ELSE Exchanges(PollResponses)

PollGetMeInputs(c, t, x) ==
    IF PollStores(c, t, x)
    THEN GetMeInputs(StoreTokens(ensure_session(c), PollAnswered(c, t, x), x.r),
                     PollAnswered(c, t, x))
    ELSE {NoInput}

(***************************************************************************)
(* Tado.device_activation: the guard, then the loop, then _device_ready.   *)
(***************************************************************************)
\* the guard of device_activation
ActivationRefused(c) == c.device_activation_status = NOT_STARTED

\* the call is entered: it is refused, or it starts to poll
DeviceActivation ==
    /\ Idle
    /\ op' = "device_activation"
    /\ log' = << >>
    /\ UNCHANGED <<tado, now, me_requests, returned, tasks>>
    /\ IF ActivationRefused(tado)
       THEN /\ result' = "TadoError: Device activation has not yet started or has already completed"
            /\ polling' = FALSE
       ELSE /\ result' = "polling"
            /\ polling' = TRUE

\* one iteration of "while True": False goes round again, True leaves the
\* loop for _device_ready, an exception ends the call
CheckDeviceActivation ==
    /\ polling
    /\ \E x \in PollInputs(tado, now) :
       \E i \in PollGetMeInputs(tado, now, x) :
       \E a \in {check_device_activation(tado, now, x, i)} :
               /\ a.t <= MaxTime
               /\ now' = a.t
               /\ op' = "_check_device_activation"
               /\ log' = a.log
               /\ result' = a.err
               /\ polling' = (a.err = "pending")
               /\ tado' = IF a.err = OK THEN device_ready(a.c) ELSE a.c
               /\ me_requests' = MeRequested(me_requests, a.log)
               /\ UNCHANGED <<returned, tasks>>

(***************************************************************************)
(* Tado.login: the password grant.                                         *)
(***************************************************************************)
LoginResponses ==
    TokenResponses
    \cup
    {[status |-> 200, json |-> FALSE, error |-> "",
      access_token |-> None, refresh_token |-> None, expires_in |-> 0]}

LoginStores(x) == x.r.status = 200 /\ x.r.json

login(c, t, x, i) ==
    LET sent == <<[kind |-> "grant", grant |-> "password", token |-> None, now |-> t]>>
        s == login_session(c)
        stored == StoreTokens(s, t + x.d, x.r)
        answered == Append(sent, Response(x, t + x.d))
        done(got) == Ret(got.c, got.t, answered \o got.log, got.err, None)
        home(me) == Awaited({done(got) : got \in {ResolveHome(me)}})
    IN  \* aiohttp refuses to post on a closed session
        IF s.session_closed THEN Ret(s, t, << >>, "RuntimeError: Session is closed", None)
        ELSE IF x.r.status = TIMEOUT THEN Ret(s, t, sent, "TadoConnectionError", None)
        ELSE IF x.r.status >= 400
             THEN Ret(s, t, answered, check_request_status(x.r.status, TRUE), None)
        ELSE IF ~x.r.json
             THEN Ret(s, t + x.d, answered, "TadoError: Unexpected response from Tado", None)
        ELSE Awaited({home(me) : me \in {get_me(stored, t + x.d, i)}})

LoginInputs(c) ==
    IF login_session(c).session_closed
    THEN {[r |-> CHOOSE r \in LoginResponses : r.status = TIMEOUT, d |-> 0]}
    ELSE Exchanges(LoginResponses)

Login ==
    /\ Idle
    /\ \E x \in LoginInputs(tado) :
       \E i \in (IF LoginStores(x)
                 THEN GetMeInputs(StoreTokens(login_session(tado), now + x.d, x.r),
                                  now + x.d)
                 ELSE {NoInput}) :
           Return("login", login(tado, now, x, i))

Next ==
    \/ Tick
    \/ Returned
    \/ RefreshAuth
    \/ GetDevices
    \/ GetMe
    \/ LoginDeviceFlow
    \/ AsyncInit
    \/ DeviceActivation
    \/ CheckDeviceActivation
    \/ Login

Spec == Init /\ [][Next]_vars

(***************************************************************************)
(* The zone state and its normalizer, Tado.update_zone_data.               *)
(*                                                                         *)
(* A payload is the JSON of one zone state, with the vendor's keys.  An    *)
(* optional object is << >> (absent or null) or <<object>>, an optional    *)
(* string is NoneStr or the string, an optional number None or the number, *)
(* and a bool field holds "True", "False" or NoneStr.  Timestamps, swing   *)
(* modes and the Fahrenheit values are copied through by the code and are  *)
(* left out.                                                               *)
(***************************************************************************)
Bool(b) == IF b THEN "True" ELSE "False"

\* tadoasync.const, as update_zone_data uses it
CONST_AWAY == "AWAY"
CONST_MODE_OFF == "OFF"
CONST_MODE_SMART_SCHEDULE == "SMART_SCHEDULE"
CONST_HVAC_OFF == "OFF"
CONST_HVAC_IDLE == "IDLE"
CONST_HVAC_HEAT == "HEATING"
CONST_HVAC_COOL == "COOLING"
CONST_FAN_OFF == "OFF"
CONST_FAN_AUTO == "AUTO"
CONST_FAN_SPEED_OFF == "OFF"
CONST_FAN_SPEED_AUTO == "AUTO"
CONST_LINK_OFFLINE == "OFFLINE"
TYPE_AIR_CONDITIONING == "AIR_CONDITIONING"
\* the static table from setting.type to the mode
TADO_HVAC_ACTION_TO_MODES ==
    [ty \in {"HEATING", "DRYING", "FAN", "COOLING"} |->
        CASE ty = "HEATING" -> "HEAT"
          [] ty = "DRYING" -> "DRY"
          [] ty = "FAN" -> "FAN"
          [] ty = "COOLING" -> "COOL"]
\* the static table from the mode to the action
TADO_MODES_TO_HVAC_ACTION ==
    [m \in {"HEAT", "DRY", "FAN", "COOL"} |->
        CASE m = "HEAT" -> "HEATING"
          [] m = "DRY" -> "DRYING"
          [] m = "FAN" -> "FAN"
          [] m = "COOL" -> "COOLING"]

\* the "setting" objects of the payloads
SettingPayloads ==
    [type : {"HEATING", "AIR_CONDITIONING", "HOT_WATER"},
     power : {"ON", "OFF"},
     mode : {NoneStr, "HEAT", "COOL"},
     temperature : {None, 20},
     fanSpeed : {NoneStr, "HIGH"},
     fanLevel : {NoneStr}]

ZoneStatePayloads ==
    [setting : SettingPayloads,
     sensorDataPoints : {<< >>, <<[celsius |-> 21, humidity |-> 40]>>},
     overlay : {<< >>, <<[termination |-> "MANUAL"]>>},
     activityDataPoints : [acPower : {NoneStr, "ON", "OFF"},
                           heatingPower : {None, 0, 50}],
     preparation : {<< >>, <<"preparation">>},
     openWindow : {<< >>, <<"window">>},
     openWindowDetected : {<< >>, <<TRUE>>},
     link : {"ONLINE", "OFFLINE"},
     tadoMode : {"HOME"}]

\* ZoneState.from_dict: the fields with an alias are read from the vendor's
\* key; preparation (bool | None) is read from "preparation"; the field
\* open_window_detected has no alias and is read from a key
\* "open_window_detected", which the payloads do not have; the derived fields
\* start with their defaults
ZoneState_from_dict(p) ==
    [setting |-> [type |-> p.setting.type, power |-> p.setting.power,
                  mode |-> p.setting.mode, temperature |-> p.setting.temperature,
                  fan_speed |-> p.setting.fanSpeed, fan_level |-> p.setting.fanLevel],
     link |-> [state |-> p.link],
     activity_data_points |-> [ac_power |-> p.activityDataPoints.acPower,
                               heating_power |-> p.activityDataPoints.heatingPower],
     tado_mode |-> p.tadoMode,
     \* default_factory=dict: an absent object is the empty dict
     sensor_data_points |-> p.sensorDataPoints,
     overlay |-> p.overlay,
     open_window |-> p.openWindow,
     preparation |-> IF p.preparation = << >> THEN NoneStr ELSE Bool(TRUE),
     open_window_detected |-> NoneStr,
     current_temp |-> None, current_humidity |-> None, target_temp |-> None,
     current_hvac_action |-> NoneStr, current_hvac_mode |-> NoneStr,
     current_fan_speed |-> NoneStr, current_fan_level |-> NoneStr,
     power |-> NoneStr, ac_power |-> NoneStr, heating_power_percentage |-> None,
     overlay_active |-> NoneStr, overlay_termination_type |-> NoneStr,
     open_window_attr |-> << >>, connection |-> NoneStr,
     available |-> Bool(FALSE), is_away |-> Bool(FALSE)]

\* what update_zone_data leaves: the object and OK, or the exception raised
ZRet(data, err) == [data |-> data, err |-> err]

\* update_zone_data, statement by statement.  The test "sensor_data_points is
\* not None" holds of every parsed object, so an object without sensor data
\* (the empty dict) fails at .inside_temperature before anything is assigned.
\* The local "setting" is bound only when a temperature setting is present,
\* and the fan rule reads it whenever a fan speed is present: unbound, the
\* read raises after power, mode and action have been assigned; bound, it is
\* a float, which has no attribute fan_speed.
update_zone_data(data) ==
    LET power == data.setting.power
        setting_bound == data.setting.temperature # None
        \* lines 679-701
        hvac_mode ==
            IF data.setting.mode # NoneStr THEN data.setting.mode
            ELSE IF power = "ON" /\ data.setting.type \in DOMAIN TADO_HVAC_ACTION_TO_MODES
                 THEN TADO_HVAC_ACTION_TO_MODES[data.setting.type]
                 ELSE CONST_MODE_OFF
        \* lines 666, 693-694
        action_of_power == IF power = "ON" THEN CONST_HVAC_IDLE ELSE CONST_HVAC_OFF
        upto_power ==
            [data EXCEPT !.current_temp = data.sensor_data_points[1].celsius,
                         !.current_humidity = data.sensor_data_points[1].humidity,
                         !.is_away = Bool(data.tado_mode = CONST_AWAY),
                         !.target_temp = IF setting_bound THEN data.setting.temperature ELSE @,
                         !.current_fan_speed = NoneStr,
                         !.current_fan_level = NoneStr,
                         !.current_hvac_mode = hvac_mode,
                         !.power = power,
                         !.current_hvac_action = action_of_power]
        \* lines 704-717: hasattr(setting, "fan_speed") is asked of the float
        fan_speed ==
            IF data.setting.fan_speed # NoneStr \/ data.setting.type = TYPE_AIR_CONDITIONING
            THEN IF power = "ON" THEN CONST_FAN_AUTO ELSE CONST_FAN_OFF
            ELSE NoneStr
        \* lines 739-746
        ac == data.activity_data_points.ac_power
        action_of_ac ==
            IF ac = "ON" /\ power = "ON"
            THEN IF hvac_mode \in DOMAIN TADO_MODES_TO_HVAC_ACTION
                 THEN TADO_MODES_TO_HVAC_ACTION[hvac_mode] ELSE CONST_HVAC_COOL
            ELSE action_of_power
        \* lines 751-769
        heating == data.activity_data_points.heating_power
        action_of_heating ==
            IF heating # None /\ heating > 0 /\ power = "ON"
            THEN CONST_HVAC_HEAT ELSE action_of_ac
        \* lines 749, 772-782
        no_overlay == data.overlay = << >>
    IN  IF data.sensor_data_points = << >> THEN ZRet(data, "AttributeError")
        ELSE IF data.setting.fan_speed # NoneStr /\ ~setting_bound
        THEN ZRet(upto_power, "UnboundLocalError")
        ELSE ZRet([upto_power EXCEPT
                     !.current_fan_speed = fan_speed,
                     !.current_fan_level = data.setting.fan_level,
                     !.preparation = Bool(data.preparation # NoneStr),
                     !.open_window_detected = Bool(data.open_window_detected # NoneStr),
                     !.open_window_attr = data.open_window,
                     !.ac_power = ac,
                     !.current_hvac_action = action_of_heating,
                     !.heating_power_percentage = heating,
                     !.current_hvac_mode =
                         IF no_overlay THEN CONST_MODE_SMART_SCHEDULE ELSE hvac_mode,
                     !.overlay_active =
                         IF no_overlay THEN Bool(FALSE)
                         ELSE Bool(hvac_mode # CONST_MODE_SMART_SCHEDULE),
                     !.overlay_termination_type =
                         IF no_overlay THEN @ ELSE data.overlay[1].termination,
                     !.connection = NoneStr,
                     \* a Link object is never equal to the string
                     !.available = Bool(TRUE)],
                  OK)

\* get_zone_state, from the answer on: the payload is parsed and normalized.
\* The payload is kept in the log, the object as it is left in "returned".
UpdateZoneData ==
    /\ Idle
    /\ \E p \in ZoneStatePayloads : \E a \in {update_zone_data(ZoneState_from_dict(p))} :
          /\ op' = "update_zone_data"
          /\ result' = a.err
          /\ log' = <<[kind |-> "payload", r |-> p]>>
          /\ returned' = a.data
    /\ UNCHANGED <<tado, now, polling, me_requests, tasks>>

NextZone == UpdateZoneData \/ Returned

SpecZone == Init /\ [][NextZone]_vars

(***************************************************************************)
(* Tado.get_unified_devices: the devices of the home in one shape, for the *)
(* v3 line and for the X line.                                             *)
(***************************************************************************)
\* the most devices a home has, and the most a room of the X line has
MaxDevices == 2
MaxRoomDevices == 1

\* tadoasync.const.TadoLine, and the capability that has an offset
PRE_LINE_X == "PRE_LINE_X"
LINE_X == "LINE_X"
INSIDE_TEMPERATURE_MEASUREMENT == "INSIDE_TEMPERATURE_MEASUREMENT"

\* the exceptions that are TadoError or a subclass of it
IsTadoError(err) ==
    err \in {"TadoError", "TadoConnectionError", "TadoAuthenticationError",
             "TadoServerError", "TadoBadRequestError", "TadoForbiddenError"}

\* the bodies of homes/{id}/devices: device k of the list has serial k
DeviceLists ==
    UNION {{[k \in 1..n |-> [serial_no |-> k, capabilities |-> caps[k],
                             connection_state |-> TRUE]] :
                caps \in [1..n -> {{}, {INSIDE_TEMPERATURE_MEASUREMENT}}]} :
           n \in 0..MaxDevices}

\* the bodies of devices/{serial}/temperatureOffset
TemperatureOffsets == {[celsius |-> 0], [celsius |-> 2]}

\* the devices of the X line, and the bodies of homes/{id}/roomsAndDevices
XDevices ==
    [serial_number : {1}, connection : [state : {"CONNECTED", "DISCONNECTED"}],
     temperature_offset : {None, 2}]
XDeviceLists == UNION {[1..n -> XDevices] : n \in 0..MaxRoomDevices}
RoomsAndDevices ==
    [rooms : {<< >>} \cup {<<[devices |-> ds]>> : ds \in XDeviceLists},
     other_devices : XDeviceLists]

\* ApiV3.get_device_temperature_offset: the resource of a serial's offset
OffsetUri(serial_no) == "devices/" \o ToString(serial_no) \o "/temperatureOffset"

\* models_unified.Device.from_v3: offset is << >> (None) or <<the offset>>
Device_from_v3(v3_device, offset) ==
    [serial |-> v3_device.serial_no,
     temperature_offset |-> IF offset # << >> THEN offset[1].celsius ELSE None,
     connection_state |-> v3_device.connection_state]

\* models_unified.Device.from_x: temperature_offset is not among the
\* arguments of cls(...) and keeps its default
Device_from_x(x_device) ==
    [serial |-> x_device.serial_number,
     temperature_offset |-> None,
     connection_state |-> x_device.connection.state = "CONNECTED"]

\* one iteration of the loop over the v3 devices: a holds the client, the
\* clock, the events and devices_unified so far, i answers the offset request
\* if one is made.  Only a TadoError is caught.
unify_v3(a, v3_device, i) ==
    LET with(r, offset) ==
            Ret(r.c, r.t, a.log \o r.log, OK,
                Append(a.val, Device_from_v3(v3_device, offset)))
        fetched(r) ==
            IF r.err = OK THEN with(r, <<r.val>>)
            ELSE IF IsTadoError(r.err) THEN with(r, << >>)
            ELSE Ret(r.c, r.t, a.log \o r.log, r.err, None)
    IN  IF INSIDE_TEMPERATURE_MEASUREMENT \notin v3_device.capabilities
        THEN Ret(a.c, a.t, a.log, OK, Append(a.val, Device_from_v3(v3_device, << >>)))
        ELSE Awaited({fetched(r) :
                 r \in {request(a.c, a.t, OffsetUri(v3_device.serial_no), i.x, i.q)}})

\* the loop from device k on; the first exception ends it
RECURSIVE unify_all_v3(_, _, _, _)
unify_all_v3(a, devices, k, is) ==
    IF a.err # OK \/ k > Len(devices) THEN a
    ELSE Awaited({unify_all_v3(b, devices, k + 1, is) :
             b \in {unify_v3(a, devices[k], is[k])}})

\* the devices of the rooms, room after room
RECURSIVE RoomDevices(_)
RoomDevices(rooms) ==
    IF rooms = << >> THEN << >>
    ELSE rooms[1].devices \o RoomDevices(Tail(rooms))

unify_all_x(rooms_and_devices) ==
    LET ds == RoomDevices(rooms_and_devices.rooms) \o rooms_and_devices.other_devices
    IN  [k \in 1..Len(ds) |-> Device_from_x(ds[k])]

\* i.first answers the listing, i.offsets[k] the offset request for device k
get_unified_devices(c, t, i) ==
    LET v3(g) ==
            IF g.err # OK THEN g
            ELSE IF g.val = << >>
                 THEN Ret(g.c, g.t, g.log, "TadoError: No devices found for the home", None)
            ELSE unify_all_v3(Ret(g.c, g.t, g.log, OK, << >>), g.val, 1, i.offsets)
        x(g) ==
            IF g.err # OK THEN g
            ELSE Ret(g.c, g.t, g.log, OK, unify_all_x(g.val))
    IN  IF c.tado_line = PRE_LINE_X
        THEN Awaited({v3(g) : g \in {get_devices(c, t, i.first)}})
        ELSE IF c.tado_line = LINE_X
        THEN Awaited({x(g) :
                 g \in {request(c, t, "roomsAndDevices", i.first.x, i.first.q)}})
        ELSE Ret(c, t, << >>, "TadoError: Tado Line not set", None)

\* the answers to the offset requests for the devices from k on, each drawn in
\* the state the iterations before it leave
RECURSIVE OffsetInputs(_, _, _)
OffsetInputs(a, devices, k) ==
    IF k > Len(devices) THEN {<< >>}
    ELSE IF a.err # OK
              \/ INSIDE_TEMPERATURE_MEASUREMENT \notin devices[k].capabilities
    THEN {<<NoInput>> \o rest :
             rest \in OffsetInputs(IF a.err # OK THEN a
                                   ELSE unify_v3(a, devices[k], NoInput),
                                   devices, k + 1)}
    ELSE UNION {{<<i>> \o rest :
                    rest \in OffsetInputs(unify_v3(a, devices[k], i), devices, k + 1)} :
                i \in RequestInputs(a.c, a.t, TemperatureOffsets)}

GetUnifiedDevicesInputs(c, t) ==
    LET offsets(g) ==
            IF g.err # OK THEN {<< >>}
            ELSE OffsetInputs(Ret(g.c, g.t, g.log, OK, << >>), g.val, 1)
    IN  IF c.tado_line = PRE_LINE_X
        THEN UNION {{[first |-> f, offsets |-> o] :
                        o \in offsets(get_devices(c, t, f))} :
                    f \in RequestInputs(c, t, DeviceLists)}
        ELSE IF c.tado_line = LINE_X
        THEN {[first |-> f, offsets |-> << >>] :
                 f \in RequestInputs(c, t, RoomsAndDevices)}
        ELSE {[first |-> NoInput, offsets |-> << >>]}

\* the list handed back is kept in "returned"
GetUnifiedDevices ==
    /\ Idle
    /\ \E i \in GetUnifiedDevicesInputs(tado, now) :
       \E a \in {get_unified_devices(tado, now, i)} :
          /\ a.t <= MaxTime
          /\ tado' = a.c
          /\ now' = a.t
          /\ op' = "get_unified_devices"
          /\ result' = a.err
          /\ log' = a.log
          /\ polling' = FALSE
          /\ me_requests' = MeRequested(me_requests, a.log)
          /\ returned' = IF a.err = OK THEN a.val ELSE Nothing
          /\ UNCHANGED tasks

\* A client that async_init has just initialised from a stored refresh token,
\* its access token still good.  No statement of the library assigns
\* _tado_line: the line is what the owner of the client has put there.
InitDevices ==
    /\ \E i \in GetMeInputs(device_ready(NewTado(StoredRefreshToken, "none")), 0),
          line \in {NoneStr, PRE_LINE_X, LINE_X} :
       \E a \in {async_init_token(NewTado(StoredRefreshToken, "none"), 0, i)} :
          /\ a.err = OK
          /\ TokenFresh(a.c, a.t)
          /\ tado = [a.c EXCEPT !.tado_line = line]
          /\ now = a.t
    /\ op = "idle"
    /\ result = OK
    /\ log = << >>
    /\ polling = FALSE
    /\ me_requests = 1
    /\ returned = Nothing
    /\ tasks = << >>

NextDevices == GetUnifiedDevices \/ Returned

SpecDevices == InitDevices /\ [][NextDevices]_vars

(***************************************************************************)
(* The life of the session: the caller may hand its own session to the     *)
(* constructor and close it when it likes, and calls close() between its   *)
(* other calls.                                                            *)
(***************************************************************************)
InitSession ==
    /\ tado \in {NewTado(rt, s) : rt \in {None, StoredRefreshToken},
                                  s \in {"none", "caller"}}
    /\ now = 0
    /\ op = "idle"
    /\ result = OK
    /\ log = << >>
    /\ polling = FALSE
    /\ me_requests = 0
    /\ returned = Nothing
    /\ tasks = << >>

Close ==
    /\ Idle
    /\ tado' = close(tado)
    /\ op' = "close"
    /\ result' = OK
    /\ log' = << >>
    /\ UNCHANGED <<now, polling, me_requests, returned, tasks>>

\* the caller closes the session it handed to the constructor
CallerClosesSession ==
    /\ Idle
    /\ tado.session = "caller" /\ ~tado.session_closed
    /\ tado' = [tado EXCEPT !.session_closed = TRUE]
    /\ op' = "session.close"
    /\ result' = OK
    /\ log' = << >>
    /\ UNCHANGED <<now, polling, me_requests, returned, tasks>>

\* every call that uses the network, with the clock moved by the calls alone
NextSession ==
    \/ Close
    \/ CallerClosesSession
    \/ Returned
    \/ RefreshAuth
    \/ GetMe
    \/ AsyncInit
    \/ DeviceActivation
    \/ CheckDeviceActivation
    \/ Login

SpecSession == InitSession /\ [][NextSession]_vars

(***************************************************************************)
(* The poll loop of the device flow under fairness: the clock goes on     *)
(* while the loop sleeps and waits for its answers, and "while True" goes  *)
(* on to its next iteration (which is only needed of the iteration that    *)
(* finds the flow expired).                                                *)
(***************************************************************************)
NextPoll ==
    \/ Tick
    \/ Returned
    \/ AsyncInit
    \/ DeviceActivation
    \/ CheckDeviceActivation

\* the clock goes on while the loop runs
ClockGoesOn == polling /\ Tick
\* the loop comes to the iteration that finds the flow expired
ExpiredPoll == polling /\ FlowExpired(tado, now) /\ CheckDeviceActivation

SpecPoll ==
    /\ Init /\ [][NextPoll]_vars
    /\ WF_vars(ClockGoesOn)
    /\ WF_vars(ExpiredPoll)

(***************************************************************************)
(* "async with Tado(...) as tado: body": __aenter__ awaits async_init and  *)
(* hands the client to the body; __aexit__ awaits close() when the body is *)
(* left, by its end or by an exception, which it lets through.  When       *)
(* __aenter__ raises, the construct is left without __aexit__.  The body   *)
(* is one call of get_devices.                                             *)
(***************************************************************************)
\* Tado.__aenter__: i.r answers the device authorization, i.i the /me request
aenter(c, t, i) ==
    IF c.refresh_token = None THEN async_init_flow(c, t, i.r)
    ELSE async_init_token(c, t, i.i)

\* Tado.__aexit__, after a body that ended as b
aexit(b) == Ret(close(b.c), b.t, b.log, b.err, None)

\* i answers the entry, b the body
async_with(c, t, i, b) ==
    LET body(e) ==
            IF e.err # OK THEN e
            ELSE Awaited({aexit(Ret(g.c, g.t, e.log \o g.log, g.err, None)) :
                     g \in {get_devices(e.c, e.t, b)}})
    IN  Awaited({body(e) : e \in {aenter(c, t, i)}})

AEnterInputs(c, t) ==
    IF c.refresh_token = None
    THEN {[r |-> r, i |-> NoInput] : r \in LoginDeviceFlowInputs(c)}
    ELSE {[r |-> CHOOSE r \in DeviceAuthResponses : r.status = TIMEOUT, i |-> i] :
             i \in GetMeInputs(device_ready(c), t)}

BodyInputs(e) ==
    IF e.err # OK THEN {NoInput} ELSE RequestInputs(e.c, e.t, {<<"devices">>})

AsyncWith ==
    /\ Idle
    /\ \E i \in AEnterInputs(tado, now) :
       \E b \in BodyInputs(aenter(tado, now, i)) :
           Return("async_with", async_with(tado, now, i, b))

NextScope == AsyncWith \/ Close \/ CallerClosesSession \/ Returned

SpecScope == InitSession /\ [][NextScope]_vars

(***************************************************************************)
(* Two gateway calls at once on one client, asyncio.gather(get_devices(),  *)
(* get_zones()).  A task runs until it awaits the network; the loop then   *)
(* starts the next task, and when all have started it resumes a task whose *)
(* answer has arrived.  tasks[k].pc is where task k stands: "start" (not   *)
(* yet run), "refreshing" (in session.post of _refresh_auth), "requesting" *)
(* (in session.request of _request) or "done"; tasks[k].err is how it      *)
(* ended.  No statement of _refresh_auth or of _request takes a lock.      *)
(* The events of the tasks go to the one log, each with its task.          *)
(***************************************************************************)
\* the calls that are gathered
MaxTasks == 2
GatherUris == [k \in 1..MaxTasks |-> IF k = 1 THEN "devices" ELSE "zones"]

\* the token endpoint never hands out a pair twice: the pair of the answer
\* that is event n of the gather
GatherTokenResponses(n) ==
    {[status |-> 200, json |-> TRUE, error |-> "", access_token |-> 20 + n,
      refresh_token |-> 40 + n, expires_in |-> e] : e \in ExpiresIn}
    \cup
    {r \in TokenResponses : r.status # 200}

\* _request from the return of _refresh_auth to its await: the headers are
\* built from the access token the client holds now, the request is sent
send_request(c, t, l, k) ==
    Append(l, [kind |-> "request", uri |-> GatherUris[k],
               token |-> c.access_token, now |-> t,
               expiry |-> c.token_expiry, task |-> k])

\* what gather hands to its caller: the first exception in the order of the
\* calls, once every task has ended
GatherOutcome(ts) ==
    IF \E k \in DOMAIN ts : ts[k].pc # "done" THEN "running"
    ELSE IF \A k \in DOMAIN ts : ts[k].err = OK THEN OK
    ELSE ts[CHOOSE k \in DOMAIN ts :
                /\ ts[k].err # OK
                /\ \A j \in DOMAIN ts : j < k => ts[j].err = OK].err

\* the caller gathers the calls
Gather ==
    /\ Idle
    /\ tasks' = [k \in 1..MaxTasks |-> [pc |-> "start", err |-> OK]]
    /\ op' = "gather"
    /\ result' = "running"
    /\ log' = << >>
    /\ UNCHANGED <<tado, now, polling, me_requests, returned>>

\* task k runs from the top of _request to its first await: _refresh_auth
\* tests the expiry, and posts the grant or returns for the request to be sent
TaskStarts(k) ==
    /\ op = "gather"
    /\ tasks[k].pc = "start"
    /\ \A j \in 1..(k - 1) : tasks[j].pc # "start"
    /\ LET checked == Append(log, [kind |-> "check", fresh |-> TokenFresh(tado, now),
                                   expiry |-> tado.token_expiry, now |-> now,
                                   task |-> k])
       IN  IF TokenFresh(tado, now)
           THEN /\ log' = send_request(tado, now, checked, k)
                /\ tasks' = [tasks EXCEPT ![k].pc = "requesting"]
           ELSE /\ log' = Append(checked, [kind |-> "grant", grant |-> "refresh_token",
                                           token |-> tado.refresh_token, now |-> now,
                                           task |-> k])
                /\ tasks' = [tasks EXCEPT ![k].pc = "refreshing"]
    /\ tado' = ensure_session(tado)
    /\ result' = GatherOutcome(tasks')
    /\ UNCHANGED <<now, op, polling, me_requests, returned>>

\* the token endpoint's answer to task k arrives: the task ends with the
\* exception, or stores the pair, returns to _request and sends the request
TokenAnswered(k) ==
    /\ op = "gather"
    /\ tasks[k].pc = "refreshing"
    /\ \A j \in DOMAIN tasks : tasks[j].pc # "start"
    /\ \E r \in GatherTokenResponses(Len(log) + 1) :
        LET answered == Append(log, [kind |-> "response", to |-> "grant", r |-> r,
                                     now |-> now, task |-> k])
        IN  IF r.status = TIMEOUT
            THEN /\ tasks' = [tasks EXCEPT ![k] = [pc |-> "done",
                                                   err |-> "TadoConnectionError"]]
                 /\ UNCHANGED <<tado, log>>
            ELSE IF r.status >= 400
            THEN /\ tasks' = [tasks EXCEPT ![k] =
                                 [pc |-> "done",
                                  err |-> check_request_status(r.status, FALSE)]]
                 /\ log' = answered
                 /\ UNCHANGED tado
            ELSE /\ tado' = ensure_session(StoreRefreshed(tado, now, r))
                 /\ log' = send_request(tado', now, answered, k)
                 /\ tasks' = [tasks EXCEPT ![k].pc = "requesting"]
    /\ result' = GatherOutcome(tasks')
    /\ UNCHANGED <<now, op, polling, me_requests, returned>>

\* the resource endpoint's answer to task k arrives: the task ends
ResourceAnswered(k) ==
    /\ op = "gather"
    /\ tasks[k].pc = "requesting"
    /\ \A j \in DOMAIN tasks : tasks[j].pc # "start"
    /\ \E q \in ResourceResponses({<< >>}) :
        /\ tasks' = [tasks EXCEPT ![k] =
                        [pc |-> "done",
                         err |-> IF q.status = TIMEOUT THEN "TadoConnectionError"
                                 ELSE IF q.status >= 400
                                      THEN check_request_status(q.status, FALSE)
                                      ELSE OK]]
        /\ log' = IF q.status = TIMEOUT THEN log
                  ELSE Append(log, [kind |-> "response", to |-> "request", r |-> q,
                                    now |-> now, task |-> k])
    /\ result' = GatherOutcome(tasks')
    /\ UNCHANGED <<tado, now, op, polling, me_requests, returned>>

\* the caller takes what gather hands back
Gathered ==
    /\ op = "gather"
    /\ \A k \in DOMAIN tasks : tasks[k].pc = "done"
    /\ op' = "idle"
    /\ result' = OK
    /\ log' = << >>
    /\ tasks' = << >>
    /\ UNCHANGED <<tado, now, polling, me_requests, returned>>

\* a client that async_init has initialised from a stored refresh token
InitConcurrent ==
    /\ \E i \in GetMeInputs(device_ready(NewTado(StoredRefreshToken, "none")), 0) :
       \E a \in {async_init_token(NewTado(StoredRefreshToken, "none"), 0, i)} :
          /\ a.err = OK
          /\ tado = a.c
          /\ now = a.t
    /\ op = "idle"
    /\ result = OK
    /\ log = << >>
    /\ polling = FALSE
    /\ me_requests = 1
    /\ returned = Nothing
    /\ tasks = << >>

NextConcurrent ==
    \/ Tick
    \/ Gather
    \/ \E k \in 1..MaxTasks : TaskStarts(k)
    \/ \E k \in 1..MaxTasks : TokenAnswered(k)
    \/ \E k \in 1..MaxTasks : ResourceAnswered(k)
    \/ Gathered

SpecConcurrent == InitConcurrent /\ [][NextConcurrent]_vars

(***************************************************************************)
(* A client from its construction on: it is initialised by async_init,     *)
(* through the device flow or from a stored refresh token, and then asked  *)
(* for its unified devices.                                                *)
(***************************************************************************)
NextLine ==
    \/ Tick
    \/ Returned
    \/ AsyncInit
    \/ DeviceActivation
    \/ CheckDeviceActivation
    \/ GetUnifiedDevices

SpecLine == Init /\ [][NextLine]_vars

(***************************************************************************)
(* The claims.                                                             *)
(***************************************************************************)
\* positions of the events of one kind in a log
Events(l, k) == {i \in DOMAIN l : l[i].kind = k}
\* positions of the grants of one type in a log
Grants(l, g) == {i \in DOMAIN l : l[i].kind = "grant" /\ l[i].grant = g}
\* positions of everything a call sent over the network
Sent(l) == {i \in DOMAIN l : l[i].kind \in {"grant", "request", "device_authorize"}}

StateErrorStarted == "TadoError: Device activation already in progress or completed"
StateErrorNotStarted ==
    "TadoError: Device activation has not yet started or has already completed"
TimeoutStateError == "TadoError: User took too long to enter key"

\* C1, as stated: every resource request the gateway sends is preceded in the
\* same call by the validity check, and carries a token for which
\* now < token_expiry - 30 holds, whatever expires_in the token endpoint
\* returned.
C1_RequestWithinMargin ==
    \A i \in Events(log, "request") :
        /\ \E j \in 1..(i - 1) : log[j].kind = "check"
        /\ log[i].expiry # None
        /\ log[i].now < log[i].expiry - MARGIN

\* C1, amended: every resource request is preceded in the same call by the
\* validity check, and carries either a token for which now < token_expiry - 30
\* holds, or the token that the refresh grant of this same call has just
\* returned with expires_in <= 30 (the fresh token is not checked again).
C1_RequestAfterCheckOrRefresh ==
    \A i \in Events(log, "request") :
        /\ \E j \in 1..(i - 1) : log[j].kind = "check"
        /\ log[i].expiry # None
        /\ \/ log[i].now < log[i].expiry - MARGIN
           \/ /\ i > 3
              /\ log[i - 3].kind = "check" /\ ~log[i - 3].fresh
              /\ log[i - 2].kind = "grant" /\ log[i - 2].grant = "refresh_token"
              /\ log[i - 1].kind = "response" /\ log[i - 1].r.status = 200
              /\ log[i - 1].r.expires_in <= MARGIN
              /\ log[i].token = log[i - 1].r.access_token
              /\ log[i].expiry = log[i].now + log[i - 1].r.expires_in

\* C1, witness: a call found a recorded expiry within the margin, refreshed,
\* and then sent its request with a token good for more than the margin.
C1_Witness ==
    \E i \in Events(log, "request") :
        /\ i > 3
        /\ log[i - 3].kind = "check" /\ log[i - 3].expiry # None /\ ~log[i - 3].fresh
        /\ log[i - 1].kind = "response" /\ log[i - 1].r.status = 200
        /\ log[i].now < log[i].expiry - MARGIN

\* C2: _refresh_auth called while now < token_expiry - 30 sends nothing and
\* changes no field of the client; called otherwise (or with no expiry
\* recorded) it sends exactly one refresh-token grant and nothing else, and on
\* success the access token and the refresh token are those of the response
\* and token_expiry is the time of the response plus its expires_in.
C2_RefreshOnlyWhenStale ==
    [][(op = "idle" /\ op' = "_refresh_auth") =>
        IF tado.token_expiry # None /\ now < tado.token_expiry - MARGIN
        THEN Sent(log') = {} /\ tado' = tado /\ result' = OK
        ELSE /\ Cardinality(Grants(log', "refresh_token")) = 1
             /\ Cardinality(Sent(log')) = 1
             /\ \A i \in Grants(log', "refresh_token") :
                    log'[i].token = tado.refresh_token
             /\ result' = OK =>
                    \E i \in Events(log', "response") :
                        /\ log'[i].r.status = 200
                        /\ tado'.access_token = log'[i].r.access_token
                        /\ tado'.refresh_token = log'[i].r.refresh_token
                        /\ tado'.token_expiry = now' + log'[i].r.expires_in
                        /\ log'[i].now = now'
             /\ result' # OK =>
                    /\ tado'.access_token = tado.access_token
                    /\ tado'.refresh_token = tado.refresh_token
                    /\ tado'.token_expiry = tado.token_expiry
    ]_vars

\* C2, witness: a stale token has been replaced by a refresh that took time.
C2_Witness ==
    /\ op = "_refresh_auth" /\ result = OK
    /\ \E i \in Events(log, "check") : log[i].expiry # None /\ log[i].now < now
    /\ Grants(log, "refresh_token") # {}
    /\ tado.token_expiry > now + MARGIN

\* C3: login_device_flow invoked (by the caller, or by async_init on a client
\* without a refresh token) while the status is PENDING or COMPLETED raises
\* the state error, sends nothing, and leaves every field of the client
\* (status, device-flow data, verification URL, tokens) and the clock as
\* they were.
C3_StartRejectedOutsideNotStarted ==
    [][(/\ op = "idle"
        /\ \/ op' = "login_device_flow"
           \/ op' = "async_init" /\ tado.refresh_token = None
        /\ tado.device_activation_status \in {PENDING, COMPLETED}) =>
        /\ result' = StateErrorStarted
        /\ log' = << >>
        /\ tado' = tado
        /\ now' = now
    ]_vars

\* C3, witness: the state error has been raised on a client whose flow is
\* pending and holds device-flow data.
C3_Witness ==
    /\ op = "login_device_flow" /\ result = StateErrorStarted
    /\ tado.device_activation_status = PENDING
    /\ tado.device_flow_data # << >>
    /\ tado.device_verification_url # None

\* the exceptions of tadoasync.exceptions, with the messages TadoError is
\* raised with
TadoErrors ==
    {"TadoError", "TadoConnectionError", "TadoAuthenticationError",
     "TadoForbiddenError", "TadoBadRequestError",
     StateErrorStarted, StateErrorNotStarted, TimeoutStateError,
     "TadoError: Unexpected response from Tado",
     "TadoError: Failed to start device activation flow",
     "TadoError: Login failed"}

\* the log is that of a poll whose device-code grant was answered
PollAnswered3(l) ==
    /\ Len(l) >= 3
    /\ l[2].kind = "grant" /\ l[2].grant = "device_code"
    /\ l[3].kind = "response"

\* the answer was "authorization_pending"
AnsweredPending(l) ==
    PollAnswered3(l) /\ l[3].r.status = 400 /\ l[3].r.json
    /\ l[3].r.error = "authorization_pending"

\* C4, as stated: every successful login_device_flow made from NOT_STARTED,
\* by the caller directly or through async_init, leaves
\* device_activation_status equal to PENDING.
C4_StartLeavesPending ==
    (/\ op \in {"login_device_flow", "async_init"}
     /\ Events(log, "device_authorize") # {}
     /\ result = OK)
    => tado.device_activation_status = PENDING

\* C5, as stated: device_activation() invoked while the status is NOT_STARTED
\* or COMPLETED raises the state error and does not enter the poll loop, and
\* no poll made while the status is not PENDING sends a device-code grant.
C5_ActivationOnlyWhilePending ==
    [][/\ (/\ op = "idle" /\ op' = "device_activation"
           /\ tado.device_activation_status \in {NOT_STARTED, COMPLETED})
          => (result' = StateErrorNotStarted /\ ~polling')
       /\ (/\ polling /\ op' = "_check_device_activation"
           /\ tado.device_activation_status # PENDING)
          => Grants(log', "device_code") = {}
    ]_vars

\* C6: a poll made when now > expires_at raises the timeout state error
\* whatever the server would answer: it takes no sleep, sends nothing,
\* changes no field of the client, and ends the call.
C6_PollAfterExpiryTimesOut ==
    [][(/\ polling /\ op' = "_check_device_activation"
        /\ tado.expires_at # None /\ now > tado.expires_at) =>
        /\ result' = TimeoutStateError
        /\ log' = << >>
        /\ tado' = tado
        /\ now' = now
        /\ ~polling'
    ]_vars

\* C6, witness: a poll has raised the timeout state error after the expiry.
C6_Witness ==
    /\ op = "_check_device_activation" /\ result = TimeoutStateError
    /\ tado.device_activation_status = PENDING
    /\ now > tado.expires_at /\ tado.expires_at # None

\* C7, as stated: once the poll loop has raised the timeout state error the
\* client's device_activation_status is NOT_STARTED again.
C7_TimeoutResetsToNotStarted ==
    (op = "_check_device_activation" /\ result = TimeoutStateError)
    => tado.device_activation_status = NOT_STARTED

\* the tokens of the answer l[3] have been stored with their expiry: the client
\* still holds them, or the get_me() that followed has examined that expiry
\* and has submitted that refresh token in a refresh grant of its own
TokensStoredFrom(l, c) ==
    IF Grants(l, "refresh_token") = {}
    THEN /\ c.access_token = l[3].r.access_token
         /\ c.refresh_token = l[3].r.refresh_token
         /\ c.token_expiry = l[3].now + l[3].r.expires_in
    ELSE /\ l[4].kind = "check" /\ l[4].expiry = l[3].now + l[3].r.expires_in
         /\ l[5].kind = "grant" /\ l[5].token = l[3].r.refresh_token

\* the client is as device_activation() leaves it when it returns
ActivationCompleted(c) ==
    /\ c.device_activation_status = COMPLETED
    /\ c.user_code = None
    /\ c.device_verification_url = None
    /\ c.me # << >> /\ c.me[1] # << >>
    /\ c.home_id = c.me[1][1]

\* C8, as stated: when a poll receives HTTP 200 the client stores the tokens
\* of the response with token_expiry = now + expires_in, resolves the home id
\* from the first home of /me, and device_activation() returns with status
\* COMPLETED and with user code and verification URL cleared.  (Stated for
\* the 200 answers that carry a JSON token response.)
C8_PollOkCompletes ==
    (/\ op = "_check_device_activation" /\ PollAnswered3(log)
     /\ log[3].r.status = 200 /\ log[3].r.json)
    => /\ result = OK
       /\ ~polling
       /\ TokensStoredFrom(log, tado)
       /\ ActivationCompleted(tado)

\* C8, amended: when a poll receives HTTP 200 with a JSON body the client
\* stores the tokens of the response with token_expiry = now + expires_in and
\* then resolves the home id through get_me(); if that succeeds (the gateway
\* raises nothing and the profile lists a home) the home id is that of the
\* first home and device_activation() returns with status COMPLETED and with
\* user code and verification URL cleared; if it fails device_activation()
\* raises that error and the status is left as it was.  The status does not
\* become COMPLETED through the device flow before the tokens are stored.
C8_PollOkStoresThenCompletes ==
    [][(polling /\ op' = "_check_device_activation") =>
        /\ (PollAnswered3(log') /\ log'[3].r.status = 200 /\ log'[3].r.json) =>
            /\ TokensStoredFrom(log', tado')
            /\ ~polling'
            /\ result' = OK => ActivationCompleted(tado')
            /\ result' # OK =>
                /\ tado'.device_activation_status = tado.device_activation_status
                /\ tado'.home_id = tado.home_id
                /\ \/ result' = "IndexError"
                   \/ Events(log', "check") # {}
        /\ (/\ tado.device_activation_status # COMPLETED
            /\ tado'.device_activation_status = COMPLETED) =>
            /\ PollAnswered3(log') /\ log'[3].r.status = 200
            /\ result' = OK
            /\ tado'.access_token # None
            /\ tado'.refresh_token # None
            /\ tado'.token_expiry # None
    ]_vars

\* C8, witness: device_activation() has returned after a poll that was
\* answered 200 and a /me that listed two homes.
C8_Witness ==
    /\ op = "_check_device_activation" /\ result = OK
    /\ PollAnswered3(log) /\ log[3].r.status = 200
    /\ Events(log, "request") # {}
    /\ tado.device_activation_status = COMPLETED
    /\ Len(tado.me[1]) = 2
    /\ tado.access_token = log[3].r.access_token

\* C9: when a poll receives HTTP 400 with error "authorization_pending" the
\* poll returns "not yet": nothing is raised, no field of the client changes
\* (status, access token, refresh token, token_expiry, home id), the call
\* stays in its loop, and the poll slept for the vendor's interval before it
\* posted its one grant.
C9_PendingKeepsPolling ==
    [][(polling /\ op' = "_check_device_activation" /\ AnsweredPending(log')) =>
        /\ result' = "pending"
        /\ polling'
        /\ tado' = tado
        /\ Len(log') = 3
        /\ log'[1].kind = "sleep"
        /\ log'[1].secs = tado.device_flow_data[1].interval
        /\ log'[2].now = now + tado.device_flow_data[1].interval
        /\ now' = log'[2].now
    ]_vars

\* C9, witness: a pending flow has been polled after a positive interval, was
\* answered "authorization_pending", and is still polling.
C9_Witness ==
    /\ op = "_check_device_activation" /\ result = "pending" /\ polling
    /\ AnsweredPending(log)
    /\ log[1].secs > 0
    /\ tado.device_activation_status = PENDING
    /\ tado.access_token = None

\* C10, as stated: when a poll receives a response that is neither 200 nor
\* 400 "authorization_pending", device_activation() ends with an exception of
\* the library (a TadoError) and stores no tokens.  (Stated for the answers
\* with a JSON body: 400 with another error, 401, 403, 500, 404, 204.)
C10_PollFailureIsTyped ==
    [][(/\ polling /\ op' = "_check_device_activation"
        /\ PollAnswered3(log')
        /\ log'[3].r.status # 200 /\ log'[3].r.json
        /\ ~AnsweredPending(log')) =>
        /\ result' \in TadoErrors
        /\ ~polling'
        /\ tado' = tado
    ]_vars

(***************************************************************************)
(* Error mapping of the exchanges that go through check_request_status.    *)
(***************************************************************************)
\* the last thing the call sent is a resource request or a refresh-token grant
LastSentByGateway(l, i) ==
    \/ l[i].kind = "request"
    \/ l[i].kind = "grant" /\ l[i].grant = "refresh_token"

\* the last thing the call sent is the password grant of login or the post of
\* login_device_flow
LastSentByLogin(l, i) ==
    \/ l[i].kind = "device_authorize"
    \/ l[i].kind = "grant" /\ l[i].grant = "password"

\* C11, as stated: a network call that times out raises
\* TadoConnectionError; answered with HTTP 401 it raises
\* TadoAuthenticationError, with 403 TadoForbiddenError, and with 400
\* TadoBadRequestError in the gateway and in the refresh-token grant but
\* TadoAuthenticationError in the login and the device-authorization-start
\* exchange.
C11_StatusToError ==
    LET n == Len(log)
    IN  /\ (n >= 1 /\ n \in Sent(log)) => result = "TadoConnectionError"
        /\ (n >= 2 /\ log[n].kind = "response" /\ (n - 1) \in Sent(log))
           => /\ log[n].r.status = 401 => result = "TadoAuthenticationError"
              /\ log[n].r.status = 403 => result = "TadoForbiddenError"
        /\ (n >= 2 /\ log[n].kind = "response" /\ log[n].r.status = 400)
           => /\ LastSentByGateway(log, n - 1) => result = "TadoBadRequestError"
              /\ LastSentByLogin(log, n - 1) => result = "TadoAuthenticationError"

\* the statuses check_request_status has an entry for
MappedStatuses == {400, 401, 403, 500}

\* C12, as stated: a non-2xx answer whose status has no dedicated mapping
\* (here 404) makes the gateway, the refresh grant and the login exchanges
\* raise the ServerError kind, TadoError; no answer makes them raise an
\* exception outside the library's taxonomy.
C12_UnmappedIsServerError ==
    LET n == Len(log)
    IN  (/\ n >= 2 /\ log[n].kind = "response" /\ log[n].r.status >= 400
         /\ LastSentByGateway(log, n - 1) \/ LastSentByLogin(log, n - 1))
        => /\ log[n].r.status \notin MappedStatuses => result = "TadoError"
           /\ result \in TadoErrors

\* the exchange that starts at position i of the log failed: it timed out
\* (nothing follows it, or the next event is not its answer) or it was
\* answered with a non-2xx status
FailedAt(l, i) ==
    /\ i \in Sent(l)
    /\ \/ i = Len(l)
       \/ l[i + 1].kind # "response"
       \/ l[i + 1].r.status >= 400

\* C13: one gateway call sends at most one refresh-token grant and at most
\* one resource request; when one of them fails (timeout or non-2xx) the call
\* raises and sends nothing after the failed exchange.  (get_devices and an
\* uncached get_me are one gateway call each; the second conjunct is stated
\* of every call of the client but the poll loop, which polls again by design.)
C13_NoRetry ==
    /\ op \in {"get_devices", "get_me"} =>
           /\ Cardinality(Grants(log, "refresh_token")) <= 1
           /\ Cardinality(Events(log, "request")) <= 1
    /\ \A i \in Sent(log) :
           (FailedAt(log, i) /\ op # "_check_device_activation") =>
               /\ result # OK
               /\ \A j \in Sent(log) : j <= i

\* C13, witness: a gateway call refreshed the token, sent its request, got a
\* non-2xx answer and raised.
C13_Witness ==
    /\ op = "get_devices" /\ result # OK
    /\ Cardinality(Grants(log, "refresh_token")) = 1
    /\ \E i \in Events(log, "request") :
           /\ i < Len(log) /\ log[i + 1].kind = "response"
           /\ log[i + 1].r.status >= 400

(***************************************************************************)
(* The profile and the home id.                                            *)
(***************************************************************************)
\* the client holds a profile and the id of its first home
HomeOfFirst(c) ==
    /\ c.me # << >> /\ c.me[1] # << >>
    /\ c.home_id = c.me[1][1]

\* positions of the requests for /me in a log
MeRequests(l) == {i \in Events(l, "request") : l[i].uri = "me"}

\* C14, as stated: after a successful login or initialisation (async_init on
\* a client with a refresh token) the home id is the id of the first home of
\* the /me profile, and /me is requested at most once per client.
C14_MeRequestedOnce ==
    /\ (/\ result = OK
        /\ \/ op = "login"
           \/ op = "async_init" /\ Events(log, "device_authorize") = {}
           \/ op = "_check_device_activation")
       => HomeOfFirst(tado)
    /\ me_requests <= 1

\* C14, amended: after a successful login, async_init with a refresh token or
\* device activation the home id is the id of the first home of the /me
\* profile; /me is requested until one request for it has succeeded and never
\* after: from then on the profile does not change, no call sends a request
\* for /me, and get_me() returns the cached profile with zero network
\* requests; and once the home id is non-null it never changes.
C14_ProfileCachedHomeFixed ==
    [][/\ (/\ result' = OK
           /\ \/ op' = "login"
              \/ op' = "async_init" /\ tado.refresh_token # None
              \/ op' = "_check_device_activation")
          => HomeOfFirst(tado')
       /\ (tado.me = << >> /\ tado'.me # << >>) =>
              \E i \in MeRequests(log') :
                  /\ MeRequests(log') = {i}
                  /\ log'[i + 1].kind = "response" /\ log'[i + 1].r.status = 200
                  /\ tado'.me = <<log'[i + 1].r.body>>
       /\ tado.me # << >> =>
              /\ tado'.me = tado.me
              /\ MeRequests(log') = {} /\ me_requests' = me_requests
              /\ op' = "get_me" =>
                     /\ log' = << >> /\ result' = OK
                     /\ tado' = tado /\ now' = now
       /\ tado.home_id # None => tado'.home_id = tado.home_id
    ]_vars

\* C14, witness: a client that holds the home id of its profile, fetched with
\* one request for /me, has answered a later get_me() from its cache.
C14_Witness ==
    /\ op = "get_me" /\ result = OK /\ log = << >>
    /\ HomeOfFirst(tado) /\ Len(tado.me[1]) = 2
    /\ me_requests = 1

(***************************************************************************)
(* Ownership of the session.                                               *)
(***************************************************************************)
\* C15: no session exists until the first network use (a client made without
\* a session gets one only in a call that sends something, and that session
\* is its own); close() closes the session if and only if the client created
\* it: a caller-supplied session is left as it is by close() and by every
\* other call of the client (only the caller closes it), and a session the
\* client created is closed by close().
C15_CloseOnlyOwnSession ==
    [][/\ (tado.session = "none" /\ tado'.session # "none") =>
              /\ tado'.session = "own" /\ ~tado'.session_closed
              /\ Sent(log') # {}
       /\ op' = "close" =>
              IF tado.session = "own"
              THEN tado' = [tado EXCEPT !.session_closed = TRUE]
              ELSE tado' = tado
       /\ (tado.session = "caller" /\ ~tado.session_closed) =>
              /\ tado'.session = "caller"
              /\ tado'.session_closed => op' = "session.close"
    ]_vars

\* C15, witness: the client made a session of its own for a token exchange
\* that succeeded, and close() has closed that session.
C15_Witness ==
    /\ op = "close"
    /\ tado.session = "own" /\ tado.session_closed /\ tado.close_session
    /\ tado.access_token # None

\* the call that has ended is update_zone_data, and its payload
Normalized == op = "update_zone_data"
Payload == log[1].r

\* C16: for every zone state with power ON whose acPower value is ON and whose
\* heatingPower percentage is above 0, update_zone_data leaves
\* current_hvac_action = HEAT, whatever the mode is.
C16_HeatingOverridesAc ==
    (/\ Normalized
     /\ Payload.setting.power = "ON"
     /\ Payload.activityDataPoints.acPower = "ON"
     /\ Payload.activityDataPoints.heatingPower # None
     /\ Payload.activityDataPoints.heatingPower > 0)
    => returned.current_hvac_action = CONST_HVAC_HEAT

\* C17: for every zone state without an overlay, update_zone_data leaves
\* current_hvac_mode = SMART_SCHEDULE and overlay_active = false; and for every
\* zone state, overlay_active = (current_hvac_mode # SMART_SCHEDULE) afterwards.
C17_NoOverlayIsSmartSchedule ==
    Normalized =>
        /\ Payload.overlay = << >> =>
              /\ returned.current_hvac_mode = CONST_MODE_SMART_SCHEDULE
              /\ returned.overlay_active = Bool(FALSE)
        /\ returned.overlay_active =
              Bool(returned.current_hvac_mode # CONST_MODE_SMART_SCHEDULE)

\* C19: if setting.fanSpeed is present, current_fan_speed equals it, for either
\* power value and with or without a temperature setting; otherwise, for type
\* AIR_CONDITIONING, it is the fan AUTO constant when power is ON and the fan
\* OFF constant when it is not; otherwise it is unset.
C19_FanSpeedRule ==
    Normalized =>
        returned.current_fan_speed =
            IF Payload.setting.fanSpeed # NoneStr THEN Payload.setting.fanSpeed
            ELSE IF Payload.setting.type = TYPE_AIR_CONDITIONING
                 THEN IF Payload.setting.power = "ON" THEN CONST_FAN_AUTO ELSE CONST_FAN_OFF
                 ELSE NoneStr

\* C20: after update_zone_data, open_window_detected is true exactly when the
\* raw zone state carries a non-null open-window field, and preparation is
\* true exactly when it carries a non-null preparation field.
C20_PresenceFlags ==
    Normalized =>
        /\ returned.open_window_detected = Bool(Payload.openWindow # << >>)
        /\ returned.preparation = Bool(Payload.preparation # << >>)

\* the call that has ended listed the devices of the home, and the list
Listed ==
    \E j \in 1..(Len(log) - 1) :
        /\ log[j].kind = "request" /\ log[j].uri = "devices"
        /\ log[j + 1].kind = "response" /\ log[j + 1].r.status = 200
        /\ log[j + 1].r.body # << >>
ListedDevices ==
    log[(CHOOSE j \in 1..Len(log) : log[j].kind = "request" /\ log[j].uri = "devices")
        + 1].r.body
\* the offset of device k was requested; it was answered 200 with offset o
OffsetRequested(k) ==
    \E j \in 1..Len(log) : log[j].kind = "request" /\ log[j].uri = OffsetUri(k)
OffsetFetched(k, o) ==
    \E j \in 1..(Len(log) - 1) :
        /\ log[j].kind = "request" /\ log[j].uri = OffsetUri(k)
        /\ log[j + 1].kind = "response" /\ log[j + 1].r.status = 200
        /\ log[j + 1].r.body = o

C21_AvailableIffLinkOnline ==
    Normalized => returned.available = Bool(Payload.link # CONST_LINK_OFFLINE)

\* C22: for a zone state that has an overlay, update_zone_data leaves
\* current_hvac_mode = setting.mode if it is present; otherwise the mode the
\* type-to-mode table gives for setting.type if it is a key of the table, for
\* either value of power; otherwise OFF.
C22_ModeDerivation ==
    (Normalized /\ Payload.overlay # << >>) =>
        returned.current_hvac_mode =
            IF Payload.setting.mode # NoneStr THEN Payload.setting.mode
            ELSE IF Payload.setting.type \in DOMAIN TADO_HVAC_ACTION_TO_MODES
                 THEN TADO_HVAC_ACTION_TO_MODES[Payload.setting.type]
                 ELSE CONST_MODE_OFF

\* the call that has ended listed the rooms and devices of the X line, and
\* the X devices of the answer in the order they are unified
XListed ==
    \E j \in 1..(Len(log) - 1) :
        /\ log[j].kind = "request" /\ log[j].uri = "roomsAndDevices"
        /\ log[j + 1].kind = "response" /\ log[j + 1].r.status = 200
XListedDevices ==
    LET body == log[(CHOOSE j \in 1..Len(log) :
                        log[j].kind = "request" /\ log[j].uri = "roomsAndDevices")
                    + 1].r.body
    IN  RoomDevices(body.rooms) \o body.other_devices

\* C23: the canonical device made from an X device has connection_state true
\* exactly when the X device's connection.state is "CONNECTED", and its
\* temperature_offset is the offset embedded in the X device (null only when
\* the X device has none).
C23_FromX ==
    (op = "get_unified_devices" /\ tado.tado_line = LINE_X /\ XListed) =>
        /\ result = OK
        /\ Len(returned) = Len(XListedDevices)
        /\ \A k \in 1..Len(XListedDevices) :
              /\ returned[k].connection_state =
                    (XListedDevices[k].connection.state = "CONNECTED")
              /\ returned[k].temperature_offset = XListedDevices[k].temperature_offset

\* C24: the poll loop is bounded by the flow's absolute expiry.  While the
\* server keeps answering "authorization_pending" and the clock goes on, a
\* loop whose flow expires (before the model's clock ends) comes to its end,
\* and if the last poll did not get another answer it ends with the timeout
\* state error; and an iteration that starts after expires_at sends nothing.
C24_PollLoopBounded ==
    /\ (polling /\ tado.expires_at # None /\ tado.expires_at < MaxTime)
           ~> (/\ ~polling
               /\ op = "_check_device_activation"
               /\ result = TimeoutStateError \/ (log # << >> /\ ~AnsweredPending(log)))
    /\ [][(/\ polling /\ op' = "_check_device_activation"
           /\ tado.expires_at # None /\ now > tado.expires_at)
              => (Sent(log') = {} /\ result' = TimeoutStateError)]_vars

\* C24, witness: a loop whose polls take no time (interval 0) has ended with
\* the timeout state error once the clock had passed expires_at.
C24_Witness ==
    /\ op = "_check_device_activation" /\ result = TimeoutStateError /\ ~polling
    /\ tado.device_flow_data # << >> /\ tado.device_flow_data[1].interval = 0
    /\ tado.expires_at < MaxTime /\ now > tado.expires_at

\* C25: once an "async with Tado(...)" construct has been left (normally,
\* through an exception in the body, or because async_init failed during
\* entry), and once close() has returned, no session created by the client is
\* still open.
C25_NoOwnSessionLeftOpen ==
    op \in {"async_with", "close"} => ~(tado.session = "own" /\ ~tado.session_closed)

\* C26: update_zone_data completes without raising for every parsed
\* ZoneState, whatever optional fields are present or absent: also with a fan
\* speed and no temperature setting, and without sensor data points.
C26_NormalizerTotal ==
    Normalized => result = OK

C28_CompletedMeansReady ==
    tado.device_activation_status = COMPLETED =>
        /\ tado.access_token # None
        /\ tado.token_expiry # None
        /\ tado.home_id # None

\* a 200 answer of the token endpoint that carries a token pair, at event i
TokenResponseAt(l, i) ==
    /\ i > 1
    /\ l[i].kind = "response" /\ l[i - 1].kind = "grant"
    /\ l[i].r.status = 200 /\ l[i].r.json

\* a refresh-token grant at event i that timed out or was answered non-2xx
FailedRefreshAt(l, i) ==
    /\ l[i].kind = "grant" /\ l[i].grant = "refresh_token"
    /\ \/ i = Len(l)
       \/ l[i + 1].kind # "response"
       \/ l[i + 1].r.status # 200

\* the client's three token fields are those of the token response at event i
TokensFrom(c, l, i) ==
    /\ c.access_token = l[i].r.access_token
    /\ c.refresh_token = l[i].r.refresh_token
    /\ c.token_expiry = l[i].now + l[i].r.expires_in

\* C29: a refresh-token grant that times out or is answered non-2xx ends the
\* call with an exception, no resource request is sent after it, and access
\* token, refresh token and token_expiry are what they were when the grant
\* was posted (those of the call's last successful token response before it,
\* else those the client had before the call); whenever a call changes one of
\* the three fields, all three are those of one successful token response.
C29_FailedRefreshChangesNothing ==
    [][(op = "idle" /\ op' # "idle") =>
        /\ \A i \in DOMAIN log' : FailedRefreshAt(log', i) =>
            /\ result' # OK
            /\ \A j \in Events(log', "request") : j < i
            /\ IF \E m \in 1..i : TokenResponseAt(log', m)
               THEN \E m \in 1..i :
                       /\ TokenResponseAt(log', m)
                       /\ \A n \in (m + 1)..i : ~TokenResponseAt(log', n)
                       /\ TokensFrom(tado', log', m)
               ELSE /\ tado'.access_token = tado.access_token
                    /\ tado'.refresh_token = tado.refresh_token
                    /\ tado'.token_expiry = tado.token_expiry
        /\ (\/ tado'.access_token # tado.access_token
            \/ tado'.refresh_token # tado.refresh_token
            \/ tado'.token_expiry # tado.token_expiry) =>
                \E m \in DOMAIN log' :
                    TokenResponseAt(log', m) /\ TokensFrom(tado', log', m)
    ]_vars

\* C29, witness: a gateway call on a client that held a token pair has ended
\* on a refresh grant that was refused, before any request was sent.
C29_Witness ==
    /\ op = "get_devices" /\ result = "TadoAuthenticationError"
    /\ tado.access_token # None /\ tado.token_expiry # None
    /\ \E i \in DOMAIN log : FailedRefreshAt(log, i) /\ i < Len(log)
    /\ Events(log, "request") = {}

\* the client has been initialised with success: the status is COMPLETED,
\* a token pair is held and the home is resolved
Initialised(c) ==
    /\ c.device_activation_status = COMPLETED
    /\ c.access_token # None /\ c.token_expiry # None
    /\ c.home_id # None

\* C30: once a client has been initialised with success (device flow
\* completed, or async_init with a stored refresh token) its API line is
\* PRE_LINE_X or LINE_X, and get_unified_devices() does not end with the
\* "Tado Line not set" error.
C30_LineDetermined ==
    Initialised(tado) =>
        /\ tado.tado_line \in {PRE_LINE_X, LINE_X}
        /\ op = "get_unified_devices" => result # "TadoError: Tado Line not set"
====
